---- MODULE Spec2Model ----
(***************************************************************************)
(* Model of the valuation core of src/utils/calculations.py:               *)
(* calculate_phase_value, calculate_cumulative_probability,                *)
(* calculate_order_multiplier, get_order_multiplier, get_phases_up_to,     *)
(* product, calculate_strategic_decision, calculate_deal_percentages and   *)
(* calculate_required_deal_value.                                          *)
(*                                                                         *)
(* Numbers.  The program computes in Python floats (binary floating point, *)
(* every operation rounded to nearest, ties to even).  A model float is a  *)
(* record [m, e] standing for m * 2^e with m odd (or m = 0, e = 0), and    *)
(* every arithmetic operator below rounds its exact result to MantissaBits *)
(* significant bits, ties to even, in the order the source performs the    *)
(* operations.  The program's floats carry 53 significant bits; the model  *)
(* carries MantissaBits, so that products stay inside TLC's integers.      *)
(* Exponents are unbounded, except that a power at or beyond 2^MaxExponent *)
(* raises as Python's ** does; no other overflow, underflow or infinity    *)
(* arises for the magnitudes the model uses.                               *)
(***************************************************************************)
EXTENDS Integers, Sequences, FiniteSets, TLC

\* Significant bits of a model float.
MantissaBits == 12

---------------------------------------------------------------------------
(* Binary floating point, round to nearest, ties to even.                  *)

RECURSIVE Pow2(_)
Pow2(k) == IF k <= 0 THEN 1 ELSE 2 * Pow2(k - 1)

IAbs(n) == IF n < 0 THEN -n ELSE n

\* Number of bits of a non-negative integer (0 for 0).
RECURSIVE BitLen(_)
BitLen(n) == IF n = 0 THEN 0 ELSE 1 + BitLen(n \div 2)

\* The canonical record of m * 2^e: trailing zero bits moved to the exponent.
RECURSIVE Norm(_, _)
Norm(m, e) ==
    IF m = 0 THEN [m |-> 0, e |-> 0]
    ELSE IF m % 2 = 0 THEN Norm(m \div 2, e + 1)
    ELSE [m |-> m, e |-> e]

\* m * 2^e rounded to MantissaBits significant bits, ties to even.
RoundTo(m, e) ==
    LET a == IAbs(m)
        s == BitLen(a) - MantissaBits
    IN  IF s <= 0 THEN Norm(m, e)
        ELSE LET q    == a \div Pow2(s)
                 r    == a % Pow2(s)
                 half == Pow2(s - 1)
                 up   == (r > half) \/ (r = half /\ q % 2 = 1)
                 qq   == IF up THEN q + 1 ELSE q
             IN  Norm(IF m < 0 THEN -qq ELSE qq, e + s)

\* An integer as a float (int -> float conversion).
FromInt(n) == RoundTo(n, 0)

FNeg(a) == [m |-> -a.m, e |-> a.e]

FAbs(a) == [m |-> IAbs(a.m), e |-> a.e]

\* Position of the leading bit: |a| lies in [2^(Top-1), 2^Top).
Top(a) == a.e + BitLen(IAbs(a.m))

\* -1, 0, 1 as a < b, a = b, a > b: exact, comparisons do not round.
Sign(n) == IF n < 0 THEN -1 ELSE IF n > 0 THEN 1 ELSE 0

CmpMag(a, b) ==
    IF a.m = 0 \/ b.m = 0 THEN Sign(IAbs(a.m) - IAbs(b.m))
    ELSE IF Top(a) # Top(b) THEN Sign(Top(a) - Top(b))
    ELSE LET lo == IF a.e < b.e THEN a.e ELSE b.e
         IN  Sign(IAbs(a.m) * Pow2(a.e - lo) - IAbs(b.m) * Pow2(b.e - lo))

Cmp(a, b) ==
    IF Sign(a.m) # Sign(b.m) THEN Sign(Sign(a.m) - Sign(b.m))
    ELSE IF a.m >= 0 THEN CmpMag(a, b)
    ELSE -CmpMag(a, b)

FLt(a, b) == Cmp(a, b) < 0
FLe(a, b) == Cmp(a, b) <= 0
FGt(a, b) == Cmp(a, b) > 0
FGe(a, b) == Cmp(a, b) >= 0

FMul(a, b) == RoundTo(a.m * b.m, a.e + b.e)

\* a + b.  An operand more than MantissaBits + 2 binary places below the other
\* lies under a quarter of its last place and cannot change the rounded sum.
FAdd(a, b) ==
    IF a.m = 0 THEN b
    ELSE IF b.m = 0 THEN a
    ELSE IF Top(a) - Top(b) > MantissaBits + 2 THEN a
    ELSE IF Top(b) - Top(a) > MantissaBits + 2 THEN b
    ELSE LET lo == IF a.e < b.e THEN a.e ELSE b.e
         IN  RoundTo(a.m * Pow2(a.e - lo) + b.m * Pow2(b.e - lo), lo)

FSub(a, b) == FAdd(a, FNeg(b))

\* a / b for b # 0: the quotient to MantissaBits + 2 bits and a sticky bit
\* for the remainder, then rounded.
FDiv(a, b) ==
    LET n   == IAbs(a.m)
        d   == IAbs(b.m)
        k   == BitLen(d) + MantissaBits + 2 - BitLen(n)
        kk  == IF k < 0 THEN 0 ELSE k
        num == n * Pow2(kk)
        q   == num \div d
        st  == IF num % d = 0 THEN 0 ELSE 1
        sg  == Sign(a.m) * Sign(b.m)
    IN  IF a.m = 0 THEN [m |-> 0, e |-> 0]
        ELSE RoundTo(sg * (2 * q + st), a.e - kk - b.e - 1)

\* a ** t for an integer t >= 0: the exact power, rounded once.
RECURSIVE IPow(_, _)
IPow(n, t) ==
    IF t <= 0 THEN 1
    ELSE IF t % 2 = 1 THEN n * IPow(n, t - 1)
    ELSE IPow(n * n, t \div 2)

\* n * m * 2^e rounded, for n, m >= 0 whose product may exceed TLC's integers:
\* the product in two limbs of MantissaBits + 1 bits, the low limb a sticky
\* bit under a high limb wide enough to round by.
WideMul(n, m, e) ==
    LET limb == Pow2(MantissaBits + 1)
        low  == (n % limb) * m
        hi   == (n \div limb) * m + low \div limb
        lo   == low % limb
    IN  IF BitLen(hi) <= MantissaBits
        THEN RoundTo(hi * limb + lo, e)
        ELSE RoundTo(2 * hi + (IF lo = 0 THEN 0 ELSE 1), e + MantissaBits)

FPow(a, t) ==
    IF BitLen(IAbs(a.m)) * t <= 30
    THEN RoundTo(IPow(a.m, t), a.e * t)
    ELSE IF a.m < 0 /\ t % 2 = 1
    THEN FNeg(WideMul(IPow(IAbs(a.m), t - 1), IAbs(a.m), a.e * t))
    ELSE WideMul(IPow(IAbs(a.m), t - 1), IAbs(a.m), a.e * t)

\* The float nearest to the decimal n / d (a literal such as 0.67).
Lit(n, d) == FDiv(RoundTo(n, 0), RoundTo(d, 0))

\* Floats lie below 2^MaxExponent (sys.float_info.max_exp of a Python float).
MaxExponent == 1024

Zero == FromInt(0)
One == FromInt(1)
Hundred == FromInt(100)

---------------------------------------------------------------------------
(* The program's data.                                                     *)

\* all_phases, the fixed development order.
all_phases == <<"preclinical", "phase1", "phase2", "phase3", "registration">>

PhaseSet == {all_phases[i] : i \in 1..Len(all_phases)}

\* list.index(phase), 1-based; 0 when the phase is not in the list.
IndexOf(phase) ==
    IF phase \in PhaseSet
    THEN CHOOSE i \in 1..Len(all_phases) : all_phases[i] = phase
    ELSE 0

\* A raised exception: its Python class and its message.
Raise(kind, msg) == [status |-> kind, msg |-> msg]

Ok(r) == r.status = "ok"

\* validate_inputs(inputs, PhaseInputs) on a dict: the ten PhaseInputs fields,
\* any other key of the dict (the session's orderMultipliers) left behind.
validate_inputs(inputs) ==
    [launchValue    |-> inputs.launchValue,
     orderOfEntry   |-> inputs.orderOfEntry,
     discountRate   |-> inputs.discountRate,
     timeToMarket   |-> inputs.timeToMarket,
     costs          |-> inputs.costs,
     probabilities  |-> inputs.probabilities,
     includeRDCosts |-> inputs.includeRDCosts,
     dealStage      |-> inputs.dealStage,
     dealValue      |-> inputs.dealValue,
     desiredShare   |-> inputs.desiredShare]

\* Variant of get_phases_up_to: all_phases[:phase_index], the phase left out.
get_phases_before(phase) ==
    IF IndexOf(phase) = 0
    THEN Raise("ValueError", "Invalid phase")
    ELSE [status |-> "ok", phases |-> SubSeq(all_phases, 1, IndexOf(phase) - 1)]

\* Variant of get_phases_up_to: all_phases[:phase_index + 2], one phase too
\* many.
get_phases_through_next(phase) ==
    IF IndexOf(phase) = 0
    THEN Raise("ValueError", "Invalid phase")
    ELSE [status |-> "ok",
          phases |-> SubSeq(all_phases, 1,
                            IF IndexOf(phase) < Len(all_phases)
                            THEN IndexOf(phase) + 1 ELSE Len(all_phases))]

\* get_phases_up_to: the prefix of all_phases ending at phase.
get_phases_up_to(phase) ==
    IF IndexOf(phase) = 0
    THEN Raise("ValueError", "Invalid phase")
    ELSE [status |-> "ok", phases |-> SubSeq(all_phases, 1, IndexOf(phase))]

\* calculate_order_multiplier: the fixed table, ValueError for any other order.
calculate_order_multiplier(order) ==
    CASE order = "first"  -> [status |-> "ok", multiplier |-> Lit(10, 10)]
      [] order = "second" -> [status |-> "ok", multiplier |-> Lit(67, 100)]
      [] order = "third"  -> [status |-> "ok", multiplier |-> Lit(5, 10)]
      [] order = "later"  -> [status |-> "ok", multiplier |-> Lit(3, 10)]
      [] OTHER            -> Raise("ValueError", "Invalid order position")

\* product: result = 1.0, then result *= n for each n in order.
RECURSIVE product(_)
product(numbers) ==
    IF Len(numbers) = 0 THEN One
    ELSE FMul(product(SubSeq(numbers, 1, Len(numbers) - 1)), numbers[Len(numbers)])

\* calculate_cumulative_probability(inputs, phase).
calculate_cumulative_probability(inputs, phase) ==
    LET phase_inputs == validate_inputs(inputs)
        up_to        == get_phases_up_to(phase)
    IN  IF ~Ok(up_to) THEN up_to
        ELSE LET phases        == up_to.phases
                 probabilities == [i \in 1..Len(phases) |->
                                      phase_inputs.probabilities[phases[i]]]
                 prob_decimals == [i \in 1..Len(phases) |->
                                      FDiv(FromInt(probabilities[i]), Hundred)]
             IN  IF \E i \in 1..Len(phases) :
                        ~(0 <= probabilities[i] /\ probabilities[i] <= 100)
                 THEN Raise("ValueError", "Invalid probability value")
                 ELSE [status |-> "ok",
                       value  |-> FMul(product(prob_decimals), Hundred)]

\* sum(costs[p] for p in phases): 0, then + each cost in order.
RECURSIVE sum_costs(_, _)
sum_costs(costs, phases) ==
    IF Len(phases) = 0 THEN Zero
    ELSE FAdd(sum_costs(costs, SubSeq(phases, 1, Len(phases) - 1)),
              FromInt(costs[phases[Len(phases)]]))

\* Variant of cumulative_costs: the costs of the phases before the valued one
\* only, the rule of the earlier revision (src/app.py, lines 124-143).
cumulative_costs_before(costs, phase) ==
    sum_costs(costs, SubSeq(all_phases, 1, IndexOf(phase) - 1))

\* Line 215: sum(phase_inputs.costs[p] for p in get_phases_up_to(phase)).
cumulative_costs(costs, phase) ==
    sum_costs(costs, get_phases_up_to(phase).phases)

\* Variant of PhaseValueResult: the costs added to the value, not taken off.
PhaseValueResultCostsAdded(npv, probability, discount_factor, includeRDCosts, cum_costs) ==
    [status          |-> "ok",
     value           |-> IF includeRDCosts THEN FAdd(npv, cum_costs) ELSE npv,
     probability     |-> probability,
     discount_factor |-> discount_factor,
     costs           |-> IF includeRDCosts THEN cum_costs ELSE Zero]

\* Lines 209-223: the value net of costs and the result record.
PhaseValueResult(npv, probability, discount_factor, includeRDCosts, cum_costs) ==
    [status          |-> "ok",
     value           |-> IF includeRDCosts THEN FSub(npv, cum_costs) ELSE npv,
     probability     |-> probability,
     discount_factor |-> discount_factor,
     costs           |-> IF includeRDCosts THEN cum_costs ELSE Zero]

\* Variant of npv_of: the risk-adjusted value compounded, not discounted.
npv_of_compounded(base_value, probability, discount_factor) ==
    FMul(FDiv(FMul(base_value, probability), Hundred), discount_factor)

\* Line 210: (base_value * probability / 100) / discount_factor.
npv_of(base_value, probability, discount_factor) ==
    FDiv(FDiv(FMul(base_value, probability), Hundred), discount_factor)

\* Variant of discount_factor_of: the power taken of the rate alone,
\* 1 + (discountRate / 100) ** timeToMarket[phase].
discount_factor_misplaced(discountRate, years) ==
    FAdd(One, FPow(FDiv(FromInt(discountRate), Hundred), years))

\* Lines 203-205: (1 + discountRate / 100) ** timeToMarket[phase].
discount_factor_of(discountRate, years) ==
    FPow(FAdd(One, FDiv(FromInt(discountRate), Hundred)), years)

\* Lines 192-223 of calculate_phase_value, the parameters being valid.  The
\* power of lines 203-205 raises when its result leaves the range of a float,
\* which line 207 turns into a ValueError.
phase_value_of(phase_inputs, phase, multiplier, probability, discount_factor) ==
    IF Top(discount_factor) > MaxExponent
    THEN Raise("ValueError", "Invalid discount rate calculation")
    ELSE PhaseValueResult(
             npv_of(FMul(FromInt(phase_inputs.launchValue), multiplier),
                    probability, discount_factor),
             probability,
             discount_factor,
             phase_inputs.includeRDCosts,
             cumulative_costs(phase_inputs.costs, phase))

\* Lines 192-199: the order multiplier, then the probability, either may raise.
phase_value_checked(phase_inputs, phase, order, prob) ==
    IF ~Ok(order) THEN order
    ELSE IF ~Ok(prob) THEN prob
    ELSE phase_value_of(phase_inputs, phase, order.multiplier, prob.value,
                        discount_factor_of(phase_inputs.discountRate,
                                           phase_inputs.timeToMarket[phase]))

\* Variant of calculate_phase_value: the time to market not checked.
phase_value_any_time(inputs, phase) ==
    IF inputs.discountRate < 0 \/ inputs.discountRate > 100
    THEN Raise("ValueError", "Discount rate must be between 0 and 100")
    ELSE IF phase \notin DOMAIN inputs.timeToMarket
    THEN Raise("KeyError", phase)
    ELSE phase_value_checked(
             validate_inputs(inputs), phase,
             calculate_order_multiplier(inputs.orderOfEntry),
             calculate_cumulative_probability(validate_inputs(inputs), phase))

\* calculate_phase_value(inputs, phase).
calculate_phase_value(inputs, phase) ==
    IF inputs.discountRate < 0 \/ inputs.discountRate > 100
    THEN Raise("ValueError", "Discount rate must be between 0 and 100")
    ELSE IF phase \notin DOMAIN inputs.timeToMarket
    THEN Raise("KeyError", phase)
    ELSE IF inputs.timeToMarket[phase] < 0
    THEN Raise("ValueError", "Time to market cannot be negative")
    ELSE phase_value_checked(
             validate_inputs(inputs), phase,
             calculate_order_multiplier(inputs.orderOfEntry),
             calculate_cumulative_probability(validate_inputs(inputs), phase))

\* Variant of next_phase_of: the bound of the comparison one too low, so that
\* the last phase but one has no successor either.
next_phase_short(current_stage) ==
    IF IndexOf(current_stage) = 0
    THEN Raise("ValueError", "Invalid current stage")
    ELSE [status     |-> "ok",
          next_phase |-> IF IndexOf(current_stage) < Len(all_phases) - 1
                         THEN all_phases[IndexOf(current_stage) + 1]
                         ELSE "None"]

\* Lines 480-490: the phase after current_stage, "None" after the last,
\* ValueError for a stage all_phases.index does not find.
next_phase_of(current_stage) ==
    IF IndexOf(current_stage) = 0
    THEN Raise("ValueError", "Invalid current stage")
    ELSE [status     |-> "ok",
          next_phase |-> IF IndexOf(current_stage) < Len(all_phases)
                         THEN all_phases[IndexOf(current_stage) + 1]
                         ELSE "None"]

\* Lines 493-501: the expected value of continuing development.
continue_value_of(next_phase, next_value, probability) ==
    IF next_phase # "None"
    THEN FMul(next_value, FDiv(probability, Hundred))
    ELSE Zero

\* Lines 504-506: the share sold plus the share retained.
deal_now_value_of(out_license_percentage, current_value) ==
    FAdd(FMul(FDiv(FromInt(out_license_percentage), Hundred), current_value),
         FMul(FDiv(FromInt(100 - out_license_percentage), Hundred),
              current_value))

\* Variant of recommendation_of: the two-way rule of the earlier revision
\* (src/app.py, lines 217-221), a tie going to the deal.
recommendation_two_way(value_difference) ==
    IF FGt(value_difference, Zero) THEN "Continue Development"
    ELSE "Out-License Now"

\* Lines 510-514: the recommendation from the sign of the difference.
recommendation_of(value_difference) ==
    IF FGt(value_difference, Zero) THEN "Continue Development"
    ELSE IF FLt(value_difference, Zero) THEN "Out-License Now"
    ELSE "Either Option Viable"

\* Lines 508-525: the difference, the recommendation and the result record.
StrategicDecisionResult(current_value, deal_now_value, continue_value, probability, next_phase, out_license_percentage, value_difference) ==
    [status                 |-> "ok",
     current_phase_value    |-> current_value,
     deal_now_value         |-> deal_now_value,
     continue_develop_value |-> continue_value,
     probability_next_phase |-> probability,
     next_phase             |-> next_phase,
     out_license_percentage |-> out_license_percentage,
     value_difference       |-> value_difference,
     recommendation         |-> recommendation_of(value_difference)]

decision_of(current_value, deal_now_value, continue_value, probability, next_phase, out_license_percentage) ==
    StrategicDecisionResult(current_value, deal_now_value, continue_value,
                            probability, next_phase, out_license_percentage,
                            FSub(continue_value, deal_now_value))

\* Variant of options_of: the cost of the current phase taken off the value of
\* continuing, the rule of the earlier revision (src/app.py, lines 203-214).
options_less_cost(phase_inputs, current_stage, out_license_percentage, current_value, next_phase, next_value, probability) ==
    decision_of(current_value,
                deal_now_value_of(out_license_percentage, current_value),
                FSub(continue_value_of(next_phase, next_value, probability),
                     FromInt(phase_inputs.costs[current_stage])),
                probability, next_phase, out_license_percentage)

\* Lines 492-506: both options valued.
options_of(phase_inputs, current_stage, out_license_percentage, current_value, next_phase, next_value, probability) ==
    decision_of(current_value,
                deal_now_value_of(out_license_percentage, current_value),
                continue_value_of(next_phase, next_value, probability),
                probability, next_phase, out_license_percentage)

\* Lines 493-501: the next phase valued, when there is one.
decision_next(phase_inputs, current_stage, out_license_percentage, current_value, next_phase, next_result) ==
    IF next_phase # "None" /\ ~Ok(next_result) THEN next_result
    ELSE options_of(phase_inputs, current_stage, out_license_percentage,
                    current_value, next_phase,
                    IF next_phase # "None" THEN next_result.value ELSE Zero,
                    IF next_phase # "None"
                    THEN FromInt(phase_inputs.probabilities[current_stage])
                    ELSE Zero)

\* Lines 476-490: the current phase valued, then the next phase looked up.
decision_checked(phase_inputs, current_stage, out_license_percentage, current_result, next) ==
    IF ~Ok(current_result) THEN current_result
    ELSE IF ~Ok(next) THEN next
    ELSE decision_next(phase_inputs, current_stage, out_license_percentage,
                       current_result.value, next.next_phase,
                       calculate_phase_value(phase_inputs, next.next_phase))

\* calculate_strategic_decision(inputs, current_stage, out_license_percentage).
calculate_strategic_decision(inputs, current_stage, out_license_percentage) ==
    IF ~(0 <= out_license_percentage /\ out_license_percentage <= 100)
    THEN Raise("ValueError",
               "Out-license percentage must be between 0 and 100")
    ELSE decision_checked(
             validate_inputs(inputs), current_stage, out_license_percentage,
             calculate_phase_value(validate_inputs(inputs), current_stage),
             next_phase_of(current_stage))

\* round(number, ndigits) for ndigits >= 0: the float nearest to the decimal
\* with ndigits places nearest to number, a tie between two decimals going to
\* the even one.
round(number, ndigits) ==
    IF number.e >= 0 THEN number
    ELSE IF Top(number) + 4 * ndigits < 0 THEN Zero
    ELSE LET n  == IPow(10, ndigits) * IAbs(number.m)
             d  == Pow2(-number.e)
             q  == n \div d
             r  == n % d
             up == (2 * r > d) \/ (2 * r = d /\ q % 2 = 1)
             k  == IF up THEN q + 1 ELSE q
         IN  FDiv(Norm(Sign(number.m) * k, 0), Norm(IPow(10, ndigits), 0))

\* max(a, b) and min(a, b) of Python: the first argument unless the second
\* is strictly beyond it.
max(a, b) == IF FGt(b, a) THEN b ELSE a

min(a, b) == IF FLt(b, a) THEN b ELSE a

\* Variant of display_recommendation: the difference shown as it is for every
\* recommendation.
display_recommendation_signed(recommendation, value_diff) ==
    round(value_diff, 1)

\* display_recommendation (src/components/ui_components.py): the amount shown
\* as "more value", value_diff for "Continue Development" and abs(value_diff)
\* otherwise, formatted to one decimal place.
display_recommendation(recommendation, value_diff) ==
    IF recommendation = "Continue Development"
    THEN round(value_diff, 1)
    ELSE round(FAbs(value_diff), 1)

\* Variant of partner_share_of: the share rounded to a whole percent.
partner_share_whole(dealValue, desiredShare, phase_value) ==
    IF FGt(phase_value, Zero)
    THEN min(max(round(FMul(FDiv(dealValue, phase_value), Hundred), 0),
                 Zero),
             Hundred)
    ELSE desiredShare

\* Variant of partner_share_of: the share rounded but not clamped.
partner_share_unclamped(dealValue, desiredShare, phase_value) ==
    IF FGt(phase_value, Zero)
    THEN round(FMul(FDiv(dealValue, phase_value), Hundred), 1)
    ELSE desiredShare

\* Variant of partner_share_of: the division done whatever the phase value,
\* a phase value of 0 giving no share.
partner_share_no_fallback(dealValue, desiredShare, phase_value) ==
    IF phase_value = Zero THEN Zero
    ELSE min(max(round(FMul(FDiv(dealValue, phase_value), Hundred), 1),
                 Zero),
             Hundred)

\* Lines 398-403: the partner's share of the asset.
partner_share_of(dealValue, desiredShare, phase_value) ==
    IF FGt(phase_value, Zero)
    THEN min(max(round(FMul(FDiv(dealValue, phase_value), Hundred), 1),
                 Zero),
             Hundred)
    ELSE desiredShare

\* Lines 405-414: the remaining metrics and the result record.
DealPercentagesResult(partner_share, dealValue, phase_value) ==
    [status        |-> "ok",
     partnerShare  |-> partner_share,
     companyShare  |-> FSub(Hundred, partner_share),
     valuePerShare |-> IF FGt(phase_value, Zero)
                       THEN FDiv(phase_value, Hundred) ELSE Zero,
     fairnessRatio |-> IF FGt(phase_value, Zero)
                       THEN FDiv(dealValue, phase_value) ELSE Zero]

\* Lines 394-414: the deal stage valued, then the shares.
deal_percentages_of(phase_inputs, phase_result) ==
    IF ~Ok(phase_result) THEN phase_result
    ELSE DealPercentagesResult(
             partner_share_of(phase_inputs.dealValue, phase_inputs.desiredShare,
                              phase_result.value),
             phase_inputs.dealValue, phase_result.value)

\* calculate_deal_percentages(inputs).
calculate_deal_percentages(inputs) ==
    IF FLt(inputs.dealValue, Zero)
    THEN Raise("ValueError", "Deal value cannot be negative")
    ELSE IF ~(FLe(Zero, inputs.desiredShare) /\ FLe(inputs.desiredShare, Hundred))
    THEN Raise("ValueError", "Desired share must be between 0 and 100")
    ELSE deal_percentages_of(
             validate_inputs(inputs),
             calculate_phase_value(validate_inputs(inputs), inputs.dealStage))

\* Line 441: (desired_share / 100) * phase_result.value.
required_deal_value_of(desired_share, phase_result) ==
    IF ~Ok(phase_result) THEN phase_result
    ELSE [status |-> "ok",
          value  |-> FMul(FDiv(desired_share, Hundred), phase_result.value)]

\* Variant of calculate_required_deal_value: the asset valued at the first
\* phase whatever the deal stage.
required_deal_value_at_preclinical(inputs, desired_share) ==
    IF ~(FLe(Zero, desired_share) /\ FLe(desired_share, Hundred))
    THEN Raise("ValueError", "Desired share must be between 0 and 100")
    ELSE required_deal_value_of(
             desired_share,
             calculate_phase_value(validate_inputs(inputs), "preclinical"))

\* calculate_required_deal_value(inputs, desired_share), desired_share a float.
calculate_required_deal_value(inputs, desired_share) ==
    IF ~(FLe(Zero, desired_share) /\ FLe(desired_share, Hundred))
    THEN Raise("ValueError", "Desired share must be between 0 and 100")
    ELSE required_deal_value_of(
             desired_share,
             calculate_phase_value(validate_inputs(inputs), inputs.dealStage))

\* get_order_multiplier(inputs, order): multipliers.get(order, 1.0).
get_order_multiplier(inputs, order) ==
    CASE order = "first"  -> [status |-> "ok", multiplier |-> Lit(10, 10)]
      [] order = "second" -> [status |-> "ok", multiplier |-> Lit(67, 100)]
      [] order = "third"  -> [status |-> "ok", multiplier |-> Lit(5, 10)]
      [] order = "later"  -> [status |-> "ok", multiplier |-> Lit(3, 10)]
      [] OTHER            -> [status |-> "ok", multiplier |-> Lit(10, 10)]

---------------------------------------------------------------------------
(* The session and the deal analysis page (src/utils/state.py,             *)
(* src/sections/deal_analysis.py).  A rerun of the page is given the one   *)
(* widget the user has changed, if any; every other widget returns the     *)
(* value it is drawn with.                                                 *)

\* InputParameters().to_dict(): the defaults of a new session.
InputParameters ==
    [launchValue      |-> 1000,
     orderOfEntry     |-> "first",
     discountRate     |-> 10,
     dealStage        |-> "preclinical",
     dealValue        |-> FromInt(100),
     desiredShare     |-> FromInt(50),
     includeRDCosts   |-> TRUE,
     timeToMarket     |-> [p \in PhaseSet |->
                              CASE p = "preclinical" -> 1
                                [] p = "phase1"      -> 2
                                [] p = "phase2"      -> 3
                                [] p = "phase3"      -> 3
                                [] OTHER             -> 1],
     costs            |-> [p \in PhaseSet |->
                              CASE p = "preclinical" -> 10
                                [] p = "phase1"      -> 15
                                [] p = "phase2"      -> 30
                                [] p = "phase3"      -> 50
                                [] OTHER             -> 5],
     probabilities    |-> [p \in PhaseSet |->
                              CASE p = "preclinical" -> 80
                                [] p = "phase1"      -> 60
                                [] p = "phase2"      -> 40
                                [] p = "phase3"      -> 65
                                [] OTHER             -> 90],
     orderMultipliers |-> [i \in 1..4 |->
                              CASE i = 1 -> Lit(10, 10) [] i = 2 -> Lit(67, 100)
                                [] i = 3 -> Lit(5, 10)  [] OTHER -> Lit(3, 10)]]

\* st.session_state without the key "inputs".
NoInputs == [status |-> "unset"]

\* int(number): the integer part, the fraction dropped.
int(number) ==
    IF number.e >= 0 THEN number.m * Pow2(number.e)
    ELSE Sign(number.m) * (IAbs(number.m) \div Pow2(-number.e))

\* Lines 35-47: the result of the market penetration calculation.
MarketPenetrationResult(penetration, treatment_rate, effective_patients) ==
    [status             |-> "ok",
     penetration        |-> penetration,
     treatment_rate     |-> treatment_rate,
     effective_patients |-> effective_patients]

\* Lines 103-111: the penetration at the treatment rate, rounded to one
\* decimal and clamped to 0..100, and the patients it stands for.
market_penetration_of(treatment_rate, diagnosed_patients, penetration) ==
    MarketPenetrationResult(
        penetration, treatment_rate,
        int(FMul(FromInt(diagnosed_patients), FDiv(penetration, Hundred))))

\* Lines 100-104: the treatment rate, 0 when nobody is diagnosed.
treatment_rate_of(treated_patients, diagnosed_patients) ==
    IF diagnosed_patients > 0
    THEN FMul(FDiv(FromInt(treated_patients), FromInt(diagnosed_patients)),
              Hundred)
    ELSE Zero

penetration_of(treatment_rate, adoption_rate) ==
    min(max(round(FMul(treatment_rate, FDiv(adoption_rate, Hundred)), 1),
            Zero),
        Hundred)

\* Lines 75-111 of app_pages/2_Launch_Price.py.
calculate_market_penetration(treated_patients, diagnosed_patients, adoption_rate) ==
    IF ~(FLe(Zero, adoption_rate) /\ FLe(adoption_rate, Hundred))
    THEN Raise("ValueError", "Adoption rate must be between 0 and 100")
    ELSE IF treated_patients < 0 \/ diagnosed_patients < 0
    THEN Raise("ValueError", "Patient numbers cannot be negative")
    ELSE market_penetration_of(
             treatment_rate_of(treated_patients, diagnosed_patients),
             diagnosed_patients,
             penetration_of(
                 treatment_rate_of(treated_patients, diagnosed_patients),
                 adoption_rate))

\* Variant of initialize_session_state: the defaults set on every call.
initialize_session_state_always(is_initialized, session_inputs) ==
    [initialized |-> TRUE, inputs |-> InputParameters]

\* initialize_session_state: the defaults, unless "initialized" is a key of
\* the session already.
initialize_session_state(is_initialized, session_inputs) ==
    IF ~is_initialized
    THEN [initialized |-> TRUE, inputs |-> InputParameters]
    ELSE [initialized |-> is_initialized, inputs |-> session_inputs]

\* No exception so far.
NoException == [status |-> "ok"]

\* Variant of deal_assessment: the thresholds themselves counted as under-
\* and overvalued.
deal_assessment_inclusive(dealValue, phase_value) ==
    IF FLe(dealValue, FMul(phase_value, Lit(1, 10))) THEN "Undervalued"
    ELSE IF FGe(dealValue, FMul(phase_value, Lit(9, 10))) THEN "Overvalued"
    ELSE "Fair value"

\* Lines 308-316 of display_ownership_details: the deal assessment.
deal_assessment(dealValue, phase_value) ==
    IF FLt(dealValue, FMul(phase_value, Lit(1, 10))) THEN "Undervalued"
    ELSE IF FGt(dealValue, FMul(phase_value, Lit(9, 10))) THEN "Overvalued"
    ELSE "Fair value"

\* Lines 174-206 of display_deal_analysis, the calls of lines 174-177 made.
deal_analysis_of(session_inputs, percentages, phase_result) ==
    IF ~Ok(percentages) THEN percentages
    ELSE IF ~Ok(phase_result) THEN phase_result
    ELSE [status      |-> "ok",
          percentages |-> percentages,
          phase_value |-> phase_result.value,
          assessment  |-> deal_assessment(session_inputs.dealValue,
                                          phase_result.value)]

\* display_deal_analysis: the shares and the value of the deal stage, then
\* the assessment.
display_deal_analysis(session_inputs) ==
    deal_analysis_of(session_inputs,
                     calculate_deal_percentages(session_inputs),
                     calculate_phase_value(session_inputs,
                                           session_inputs.dealStage))

\* Lines 125 and 138: the share of the result stored, unless the call raised.
share_recalculated(session_inputs, percentages) ==
    IF ~Ok(percentages)
    THEN [inputs |-> session_inputs, exc |-> percentages]
    ELSE [inputs |-> [session_inputs EXCEPT
                         !.desiredShare = round(percentages.partnerShare, 1)],
          exc    |-> NoException]

\* Line 154: the required deal value stored, unless the call raised.
value_recalculated(session_inputs, required) ==
    IF ~Ok(required)
    THEN [inputs |-> session_inputs, exc |-> required]
    ELSE [inputs |-> [session_inputs EXCEPT
                         !.dealValue = round(required.value, 1)],
          exc    |-> NoException]

\* Lines 111-125: the stage selected; a new stage is stored and the share
\* recalculated.  The selectbox is drawn at the index of the stored stage.
select_deal_stage(session_inputs, edit) ==
    IF session_inputs.dealStage \notin PhaseSet
    THEN [inputs |-> session_inputs,
          exc    |-> Raise("ValueError", "stage is not in list")]
    ELSE IF edit.widget = "dealStage" /\ edit.value # session_inputs.dealStage
    THEN share_recalculated(
             [session_inputs EXCEPT !.dealStage = edit.value],
             calculate_deal_percentages(
                 [session_inputs EXCEPT !.dealStage = edit.value]))
    ELSE [inputs |-> session_inputs, exc |-> NoException]

\* Lines 127-138: the deal value entered; a new value is stored and the share
\* recalculated.  st.number_input refuses a value below its min_value.
enter_deal_value(session_inputs, edit) ==
    IF FLt(session_inputs.dealValue, Zero)
    THEN [inputs |-> session_inputs,
          exc    |-> Raise("StreamlitAPIException", "value below min_value")]
    ELSE IF edit.widget = "dealValue" /\ edit.value # session_inputs.dealValue
    THEN share_recalculated(
             [session_inputs EXCEPT !.dealValue = edit.value],
             calculate_deal_percentages(
                 [session_inputs EXCEPT !.dealValue = edit.value]))
    ELSE [inputs |-> session_inputs, exc |-> NoException]

\* Lines 140-154: the share entered; a new share is stored and the deal value
\* recalculated.  st.number_input refuses a value outside its range.
enter_share(session_inputs, edit) ==
    IF \/ FLt(session_inputs.desiredShare, Zero)
       \/ FGt(session_inputs.desiredShare, Hundred)
    THEN [inputs |-> session_inputs,
          exc    |-> Raise("StreamlitAPIException", "value out of range")]
    ELSE IF edit.widget = "desiredShare"
            /\ edit.value # session_inputs.desiredShare
    THEN value_recalculated(
             [session_inputs EXCEPT !.desiredShare = edit.value],
             calculate_required_deal_value(
                 [session_inputs EXCEPT !.desiredShare = edit.value],
                 edit.value))
    ELSE [inputs |-> session_inputs, exc |-> NoException]

\* A step of the page, skipped once an exception has ended the run.
after_deal_stage(drawn, edit) ==
    IF ~Ok(drawn.exc) THEN drawn ELSE enter_deal_value(drawn.inputs, edit)

after_deal_value(drawn, edit) ==
    IF ~Ok(drawn.exc) THEN drawn ELSE enter_share(drawn.inputs, edit)

\* display_deal_parameters: the three widgets in the order of the page.
display_deal_parameters(session_inputs, edit) ==
    after_deal_value(
        after_deal_stage(select_deal_stage(session_inputs, edit), edit), edit)

\* Lines 72-76 of deal_analysis_page: the analysis of the parameters drawn,
\* unless drawing them raised.
deal_page_rendered(drawn) ==
    [inputs |-> drawn.inputs,
     ret    |-> IF ~Ok(drawn.exc) THEN drawn.exc
                ELSE display_deal_analysis(drawn.inputs)]

\* deal_analysis_page: the session inputs it leaves and what it shows or
\* raises.
deal_analysis_page(session_inputs, edit) ==
    deal_page_rendered(display_deal_parameters(session_inputs, edit))

---------------------------------------------------------------------------
(* The inputs the operations are applied to.                               *)

PhaseMap(a, b, c, d, f) ==
    [p \in PhaseSet |->
        CASE p = "preclinical" -> a
          [] p = "phase1"      -> b
          [] p = "phase2"      -> c
          [] p = "phase3"      -> d
          [] OTHER             -> f]

\* InputParameters.orderMultipliers, carried by the session dict only.
orderMultipliers ==
    [i \in 1..4 |-> CASE i = 1 -> Lit(10, 10) [] i = 2 -> Lit(67, 100)
                      [] i = 3 -> Lit(5, 10)  [] OTHER -> Lit(3, 10)]

LaunchValues == {0, 100, 1000}
Orders == {"first", "second", "third", "later", "fourth"}
DiscountRates == {-5, 0, 25, 105}
TimeMaps == {PhaseMap(0, 0, 0, 0, 0),
             PhaseMap(2, 2, 1, 1, 0),
             PhaseMap(2, 2, -1, 1, 1)}
\* The defaults of InputParameters, the gates all certain, the example of the
\* specification, a gate that always fails, and an out-of-range last gate.
ProbabilityMaps == {PhaseMap(80, 60, 40, 65, 90),
                    PhaseMap(100, 100, 100, 100, 100),
                    PhaseMap(40, 60, 80, 90, 95),
                    PhaseMap(50, 0, 50, 100, 100),
                    PhaseMap(40, 60, 80, 90, 150)}
CostMaps == {PhaseMap(10, 15, 30, 50, 5)}
DealStages == {"preclinical"}
DealValues == {FromInt(100)}
DesiredShares == {FromInt(50)}

\* The stages and percentages the operations are called with.
Stages == PhaseSet \cup {"launch"}
Percentages == {-5, 0, 21, 50, 100, 105}

\* The desired shares calculate_required_deal_value is called with.
DesiredShareArgs ==
    {FromInt(-5), FromInt(0), Lit(139, 10), FromInt(50), FromInt(100),
     FromInt(105)}

\* The parameter sets of the deal analysis: the deal fields varied, with a
\* stage that does not exist, a negative deal value and shares out of range.
DealInputSpace ==
    [launchValue      : {0, 100, 1000},
     orderOfEntry     : {"second", "fourth"},
     discountRate     : {-5, 0, 25},
     dealStage        : {"preclinical", "phase2", "launch"},
     dealValue        : {FromInt(-10), FromInt(0), FromInt(100)},
     desiredShare     : {FromInt(-5), FromInt(50), FromInt(105)},
     includeRDCosts   : BOOLEAN,
     timeToMarket     : {PhaseMap(2, 2, 1, 1, 0)},
     costs            : CostMaps,
     probabilities    : {PhaseMap(80, 60, 40, 65, 90)},
     orderMultipliers : {orderMultipliers}]

\* The same parameter sets held as PhaseInputs objects: the ten fields and
\* nothing else, which validate_inputs hands on as they are (lines 146-147).
PhaseInputsSpace == {validate_inputs(i) : i \in DealInputSpace}

\* A parameter set whose preclinical discount factor, 2^1024, is beyond the
\* range of a float.
LongHorizonInputs ==
    [launchValue      : {1000},
     orderOfEntry     : {"first"},
     discountRate     : {100},
     dealStage        : DealStages,
     dealValue        : DealValues,
     desiredShare     : DesiredShares,
     includeRDCosts   : BOOLEAN,
     timeToMarket     : {PhaseMap(1024, 2, 1, 1, 0)},
     costs            : CostMaps,
     probabilities    : {PhaseMap(80, 60, 40, 65, 90)},
     orderMultipliers : {orderMultipliers}]

\* Parameter sets whose base value, scaled by a probability of 100 and
\* divided by 100 again (line 210), comes back one rounding step larger.
RoundingInputs ==
    [launchValue      : {31, 35},
     orderOfEntry     : {"second"},
     discountRate     : {0},
     dealStage        : DealStages,
     dealValue        : DealValues,
     desiredShare     : DesiredShares,
     includeRDCosts   : BOOLEAN,
     timeToMarket     : {PhaseMap(0, 0, 0, 0, 0)},
     costs            : CostMaps,
     probabilities    : {PhaseMap(100, 100, 100, 100, 100)},
     orderMultipliers : {orderMultipliers}]

InputSpace ==
    [launchValue      : LaunchValues,
     orderOfEntry     : Orders,
     discountRate     : DiscountRates,
     dealStage        : DealStages,
     dealValue        : DealValues,
     desiredShare     : DesiredShares,
     includeRDCosts   : BOOLEAN,
     timeToMarket     : TimeMaps,
     costs            : CostMaps,
     probabilities    : ProbabilityMaps,
     orderMultipliers : {orderMultipliers}]

---------------------------------------------------------------------------
(* The state machine: st.session_state.inputs, the parameter snapshot the   *)
(* operations are given; whether st.session_state holds the key            *)
(* "initialized"; and the call made last, with what it returned or raised. *)

VARIABLES inputs, initialized, call

vars == <<inputs, initialized, call>>

NoCall == [op |-> "none"]

Init ==
    /\ inputs \in InputSpace \cup LongHorizonInputs \cup RoundingInputs
    /\ initialized = TRUE
    /\ call = NoCall

CalculatePhaseValue(phase) ==
    /\ call = NoCall
    /\ call' = [op    |-> "calculate_phase_value",
                phase |-> phase,
                ret   |-> calculate_phase_value(inputs, phase)]
    /\ UNCHANGED <<inputs, initialized>>

CalculateCumulativeProbability(phase) ==
    /\ call = NoCall
    /\ call' = [op    |-> "calculate_cumulative_probability",
                phase |-> phase,
                ret   |-> calculate_cumulative_probability(inputs, phase)]
    /\ UNCHANGED <<inputs, initialized>>

CalculateStrategicDecision(stage, pct) ==
    /\ call = NoCall
    /\ call' = [op    |-> "calculate_strategic_decision",
                phase |-> stage,
                pct   |-> pct,
                ret   |-> calculate_strategic_decision(inputs, stage, pct)]
    /\ UNCHANGED <<inputs, initialized>>

\* Variant of CalculateDealPercentages: the share computed written back into
\* the parameters, as the deal page does after the call (src/sections/
\* deal_analysis.py, line 125).
CalculateDealPercentagesStoringShare ==
    /\ call = NoCall
    /\ call' = [op  |-> "calculate_deal_percentages",
                ret |-> calculate_deal_percentages(inputs)]
    /\ inputs' = IF Ok(calculate_deal_percentages(inputs))
                 THEN [inputs EXCEPT !.desiredShare =
                          calculate_deal_percentages(inputs).partnerShare]
                 ELSE inputs
    /\ UNCHANGED initialized

CalculateDealPercentages ==
    /\ call = NoCall
    /\ call' = [op  |-> "calculate_deal_percentages",
                ret |-> calculate_deal_percentages(inputs)]
    /\ UNCHANGED <<inputs, initialized>>

CalculateRequiredDealValue(desired_share) ==
    /\ call = NoCall
    /\ call' = [op            |-> "calculate_required_deal_value",
                desired_share |-> desired_share,
                ret           |-> calculate_required_deal_value(inputs,
                                                                desired_share)]
    /\ UNCHANGED <<inputs, initialized>>

CalculateOrderMultiplier(order) ==
    /\ call = NoCall
    /\ call' = [op    |-> "calculate_order_multiplier",
                order |-> order,
                ret   |-> calculate_order_multiplier(order)]
    /\ UNCHANGED <<inputs, initialized>>

GetOrderMultiplier(order) ==
    /\ call = NoCall
    /\ call' = [op    |-> "get_order_multiplier",
                order |-> order,
                ret   |-> get_order_multiplier(inputs, order)]
    /\ UNCHANGED <<inputs, initialized>>

GetPhasesUpTo(phase) ==
    /\ call = NoCall
    /\ call' = [op    |-> "get_phases_up_to",
                phase |-> phase,
                ret   |-> get_phases_up_to(phase)]
    /\ UNCHANGED <<inputs, initialized>>

\* The deal values and the shares the user enters (the widgets accept a deal
\* value of at least 0 and a share between 0 and 100).
EnteredDealValues == {FromInt(0), FromInt(50), FromInt(1000)}

EnteredShares == {FromInt(0), FromInt(25), FromInt(60), FromInt(100)}

\* A run of the script up to initialize_session_state.
InitializeSessionState ==
    /\ \E session \in {initialize_session_state(initialized, inputs)} :
          /\ initialized' = session.initialized
          /\ inputs' = session.inputs
    /\ call' = [op |-> "initialize_session_state"]

\* A rerun of the deal analysis page, the user having changed one widget or
\* none.
DealAnalysisPage(edit) ==
    /\ initialized
    /\ \E page \in {deal_analysis_page(inputs, edit)} :
          /\ inputs' = page.inputs
          /\ call' = [op   |-> "deal_analysis_page",
                      edit |-> edit,
                      ret  |-> page.ret]
    /\ UNCHANGED initialized

\* display_deal_analysis on a parameter snapshot.
DisplayDealAnalysis ==
    /\ call = NoCall
    /\ call' = [op  |-> "display_deal_analysis",
                ret |-> display_deal_analysis(inputs)]
    /\ UNCHANGED <<inputs, initialized>>

\* The decision page shows the recommendation of the decision it has just
\* computed (src/sections/strategic_decision.py, lines 103-109 and 265).
DisplayRecommendation ==
    /\ call.op = "calculate_strategic_decision"
    /\ Ok(call.ret)
    /\ call' = [op       |-> "display_recommendation",
                decision |-> call.ret,
                shown    |-> display_recommendation(
                                 call.ret.recommendation,
                                 call.ret.value_difference)]
    /\ UNCHANGED <<inputs, initialized>>

\* The caller has consumed the result; the next call starts afresh.
Return ==
    /\ call # NoCall
    /\ call' = NoCall
    /\ UNCHANGED <<inputs, initialized>>

Next ==
    \/ \E phase \in Stages : CalculatePhaseValue(phase)
    \/ \E phase \in Stages : CalculateCumulativeProbability(phase)
    \/ \E stage \in Stages, pct \in Percentages :
           CalculateStrategicDecision(stage, pct)
    \/ CalculateDealPercentages
    \/ \E desired_share \in DesiredShareArgs :
           CalculateRequiredDealValue(desired_share)
    \/ \E order \in Orders : CalculateOrderMultiplier(order)
    \/ \E order \in Orders : GetOrderMultiplier(order)
    \/ \E phase \in Stages : GetPhasesUpTo(phase)
    \/ DisplayRecommendation
    \/ DisplayDealAnalysis
    \/ Return

Spec == Init /\ [][Next]_vars

\* The same operations on the parameter sets of the deal analysis.
DealInit ==
    /\ inputs \in DealInputSpace
    /\ initialized = TRUE
    /\ call = NoCall

DealSpec == DealInit /\ [][Next]_vars

\* The same operations given the parameters as a dict and as a PhaseInputs.
SnapshotInit ==
    /\ inputs \in DealInputSpace \cup PhaseInputsSpace
    /\ initialized = TRUE
    /\ call = NoCall

SnapshotSpec == SnapshotInit /\ [][Next]_vars

\* A session from its first run on: the script initializes the session, the
\* user works on the deal analysis page.
SessionInit ==
    /\ inputs = NoInputs
    /\ initialized = FALSE
    /\ call = NoCall

SessionNext ==
    \/ InitializeSessionState
    \/ DealAnalysisPage([widget |-> "none"])
    \/ \E stage \in PhaseSet :
           DealAnalysisPage([widget |-> "dealStage", value |-> stage])
    \/ \E value \in EnteredDealValues :
           DealAnalysisPage([widget |-> "dealValue", value |-> value])
    \/ \E share \in EnteredShares :
           DealAnalysisPage([widget |-> "desiredShare", value |-> share])

SessionSpec == SessionInit /\ [][SessionNext]_vars

\* The market penetration of the launch price page, for patient counts and
\* adoption rates inside and outside their ranges.
PatientCounts == -1 .. 12

AdoptionRates ==
    {FromInt(-5), FromInt(0), FromInt(25), FromInt(50), Lit(667, 10),
     FromInt(100), FromInt(105)}

CalculateMarketPenetration(treated_patients, diagnosed_patients, adoption_rate) ==
    /\ call = NoCall
    /\ call' = [op                 |-> "calculate_market_penetration",
                treated_patients   |-> treated_patients,
                diagnosed_patients |-> diagnosed_patients,
                adoption_rate      |-> adoption_rate,
                ret                |-> calculate_market_penetration(
                                           treated_patients,
                                           diagnosed_patients, adoption_rate)]
    /\ UNCHANGED <<inputs, initialized>>

MarketInit ==
    /\ inputs = NoInputs
    /\ initialized = FALSE
    /\ call = NoCall

MarketNext ==
    \/ \E treated_patients \in PatientCounts,
          diagnosed_patients \in PatientCounts,
          adoption_rate \in AdoptionRates :
           CalculateMarketPenetration(treated_patients, diagnosed_patients,
                                      adoption_rate)
    \/ Return

MarketSpec == MarketInit /\ [][MarketNext]_vars

---------------------------------------------------------------------------
(* What the claims speak of.                                               *)

\* The input ranges of the specification's data model.
ValidInputs ==
    /\ inputs.launchValue >= 0
    /\ inputs.orderOfEntry \in {"first", "second", "third", "later"}
    /\ inputs.discountRate >= 0 /\ inputs.discountRate <= 100
    /\ \A p \in PhaseSet :
          /\ inputs.timeToMarket[p] >= 0
          /\ inputs.costs[p] >= 0
          /\ inputs.probabilities[p] >= 0 /\ inputs.probabilities[p] <= 100

Returned(op) == call.op = op /\ call.ret.status = "ok"

\* probabilities[p] / 100 as the program divides it.
Gate(p) == FDiv(FromInt(inputs.probabilities[p]), Hundred)

\* The product of the gates of all_phases[from .. to], taken in that order.
RECURSIVE GateProduct(_, _)
GateProduct(from, to) ==
    IF to < from THEN One
    ELSE FMul(GateProduct(from, to - 1), Gate(all_phases[to]))

\* The costs of all_phases[1 .. to] added up as integers.
RECURSIVE CostSum(_)
CostSum(to) ==
    IF to = 0 THEN 0 ELSE CostSum(to - 1) + inputs.costs[all_phases[to]]

\* The entry multiplier table of the specification.
EntryMultiplier ==
    CASE inputs.orderOfEntry = "first"  -> FromInt(1)
      [] inputs.orderOfEntry = "second" -> Lit(67, 100)
      [] inputs.orderOfEntry = "third"  -> Lit(50, 100)
      [] inputs.orderOfEntry = "later"  -> Lit(30, 100)

\* (1 + discountRate/100) ^ timeToMarket[phase].
DiscountFactor(phase) ==
    FPow(FAdd(One, FDiv(FromInt(inputs.discountRate), Hundred)),
         inputs.timeToMarket[phase])

\* The NPV before costs that a returned phase value stands for.
PreCostNPV(ret) ==
    FDiv(FDiv(FMul(FMul(FromInt(inputs.launchValue), EntryMultiplier),
                   ret.probability),
              Hundred),
         ret.discount_factor)

\* C1: whenever calculate_phase_value returns, the discount factor it reports
\* is (1 + discountRate/100) ^ timeToMarket[phase], the probability it reports
\* is the cumulative probability of the phase, and its value is
\* launchValue x multiplier x probability/100 / discountFactor, less the costs
\* it reports.
C1_PhaseValueFormula ==
    Returned("calculate_phase_value") =>
        /\ call.ret.discount_factor = DiscountFactor(call.phase)
        /\ call.ret.probability =
               calculate_cumulative_probability(inputs, call.phase).value
        /\ call.ret.value =
               IF inputs.includeRDCosts
               THEN FSub(PreCostNPV(call.ret), call.ret.costs)
               ELSE PreCostNPV(call.ret)

\* A phase valued two years from market at a 25% rate, with a positive value.
C1_Witness ==
    /\ Returned("calculate_phase_value")
    /\ ValidInputs
    /\ inputs.discountRate = 25
    /\ inputs.timeToMarket[call.phase] = 2
    /\ inputs.orderOfEntry = "second"
    /\ FGt(call.ret.value, Zero)
    /\ FGt(call.ret.discount_factor, One)

\* C2: with includeRDCosts the reported costs are the costs of every phase
\* from preclinical up to and including the valued phase, and the value is
\* the NPV less those costs; without it the reported costs are 0 and the
\* value is the NPV.
C2_CumulativeCosts ==
    Returned("calculate_phase_value") =>
        IF inputs.includeRDCosts
        THEN /\ call.ret.costs = FromInt(CostSum(IndexOf(call.phase)))
             /\ call.ret.value =
                    FSub(PreCostNPV(call.ret),
                         FromInt(CostSum(IndexOf(call.phase))))
        ELSE /\ call.ret.costs = Zero
             /\ call.ret.value = PreCostNPV(call.ret)

\* Phase 2 valued with costs: 10 + 15 + 30 subtracted.
C2_Witness ==
    /\ Returned("calculate_phase_value")
    /\ call.phase = "phase2"
    /\ inputs.includeRDCosts
    /\ call.ret.costs = FromInt(55)
    /\ inputs.launchValue = 1000

\* Two percentages within half a percentage point of each other.
Near(a, b) == FLe(FAbs(FSub(a, b)), Lit(1, 2))

\* The joint probability, in percent, of every gate from phase through
\* registration.
RemainingGates(phase) ==
    FMul(GateProduct(IndexOf(phase), Len(all_phases)), Hundred)

\* C3: the cumulative probability of a phase, as returned and as used in the
\* valuation, is the joint probability of clearing every remaining gate from
\* that phase through registration (41.04% for phase1 with gates 60, 80, 90,
\* 95), to within half a percentage point.
C3_RemainingGates ==
    /\ (ValidInputs /\ Returned("calculate_cumulative_probability")) =>
           Near(call.ret.value, RemainingGates(call.phase))
    /\ (ValidInputs /\ Returned("calculate_phase_value")) =>
           Near(call.ret.probability, RemainingGates(call.phase))

C5_MonotoneTowardRegistration ==
    (/\ ValidInputs
     /\ Returned("calculate_cumulative_probability")
     /\ call.phase # "registration") =>
        FGe(calculate_cumulative_probability(
                inputs, all_phases[IndexOf(call.phase) + 1]).value,
            call.ret.value)

\* C6: for valid inputs the cumulative probability of registration is
\* exactly successProbability[registration].
C6_RegistrationGate ==
    (/\ ValidInputs
     /\ Returned("calculate_cumulative_probability")
     /\ call.phase = "registration") =>
        call.ret.value = FromInt(inputs.probabilities["registration"])

\* C7: at registration calculate_strategic_decision returns a continue value
\* of 0, no next phase and the recommendation "Out-License Now", whatever the
\* registration phase value.
C7_TerminalOutLicense ==
    (/\ ValidInputs
     /\ Returned("calculate_strategic_decision")
     /\ call.phase = "registration") =>
        /\ call.ret.continue_develop_value = Zero
        /\ call.ret.next_phase = "None"
        /\ call.ret.recommendation = "Out-License Now"

\* continue_develop_value - deal_now_value of a returned decision.
Gap(ret) == FSub(ret.continue_develop_value, ret.deal_now_value)

\* C8: the recommendation is "Continue Development" exactly when the gap is
\* positive, "Out-License Now" exactly when it is negative and "Either Option
\* Viable" exactly when it is zero.
C8_RecommendationBySign ==
    Returned("calculate_strategic_decision") =>
        /\ (call.ret.recommendation = "Continue Development")
               <=> FGt(Gap(call.ret), Zero)
        /\ (call.ret.recommendation = "Out-License Now")
               <=> FLt(Gap(call.ret), Zero)
        /\ (call.ret.recommendation = "Either Option Viable")
               <=> (Gap(call.ret) = Zero)

\* A tie between two options that are both worth something.
C8_Witness ==
    /\ Returned("calculate_strategic_decision")
    /\ call.phase # "registration"
    /\ FGt(call.ret.current_phase_value, Zero)
    /\ Gap(call.ret) = Zero
    /\ call.ret.recommendation = "Either Option Viable"

\* C9: before registration the decision names the immediate successor phase,
\* reports probabilities[current_stage], and values continuing at the phase
\* value of the successor times that probability / 100, nothing subtracted.
C9_ContinueValue ==
    (Returned("calculate_strategic_decision") /\ call.phase # "registration") =>
        /\ call.ret.next_phase = all_phases[IndexOf(call.phase) + 1]
        /\ call.ret.probability_next_phase =
               FromInt(inputs.probabilities[call.phase])
        /\ call.ret.continue_develop_value =
               FMul(calculate_phase_value(
                        inputs, all_phases[IndexOf(call.phase) + 1]).value,
                    Gate(call.phase))

\* Phase 2 with costs included and a gate that is neither 0 nor 100.
C9_Witness ==
    /\ Returned("calculate_strategic_decision")
    /\ call.phase = "phase2"
    /\ call.ret.next_phase = "phase3"
    /\ inputs.includeRDCosts
    /\ inputs.probabilities["phase2"] = 40
    /\ FGt(call.ret.continue_develop_value, Zero)

\* The percentages the operation accepts.
ValidPercentages == {pct \in Percentages : 0 <= pct /\ pct <= 100}

\* C10: deal_now_value equals current_phase_value, and a call that differs
\* only in out_license_percentage returns the same deal_now_value,
\* value_difference and recommendation.
C10_SplitIndependent ==
    (ValidInputs /\ Returned("calculate_strategic_decision")) =>
        /\ call.ret.deal_now_value = call.ret.current_phase_value
        /\ \A pct \in ValidPercentages :
              LET other == calculate_strategic_decision(inputs, call.phase, pct)
              IN  /\ other.deal_now_value = call.ret.deal_now_value
                  /\ other.value_difference = call.ret.value_difference
                  /\ other.recommendation = call.ret.recommendation

\* The phase value of the deal stage.
DealStageValue == calculate_phase_value(inputs, inputs.dealStage).value

\* dealValue / phaseValue x 100, before rounding and clamping.
DealRatio == FMul(FDiv(inputs.dealValue, DealStageValue), Hundred)

\* The shares with one decimal place between 0 and 100.
OneDecimalShares == {Lit(k, 10) : k \in 0..1000}

\* C11: calculate_deal_percentages values the deal stage; when that value is
\* positive the partner share is dealValue / phaseValue x 100 rounded to one
\* decimal and clamped to [0, 100], and the value per share is phaseValue /
\* 100; otherwise the partner share is desiredShare and the value per share
\* is 0.
C11_DealPercentages ==
    Returned("calculate_deal_percentages") =>
        IF FGt(DealStageValue, Zero)
        THEN /\ call.ret.partnerShare =
                    min(max(round(DealRatio, 1), Zero), Hundred)
             /\ call.ret.partnerShare \in OneDecimalShares
             /\ call.ret.valuePerShare = FDiv(DealStageValue, Hundred)
        ELSE /\ call.ret.partnerShare = inputs.desiredShare
             /\ call.ret.valuePerShare = Zero

\* A share strictly inside the range that rounding has changed.
C11_Witness ==
    /\ Returned("calculate_deal_percentages")
    /\ FGt(DealStageValue, Zero)
    /\ FGt(call.ret.partnerShare, Zero)
    /\ FLt(call.ret.partnerShare, Hundred)
    /\ call.ret.partnerShare # DealRatio

\* C12: every result of calculate_deal_percentages has partnerShare +
\* companyShare = 100 (in the program's arithmetic) with both shares in
\* [0, 100].
C12_SharesSumToHundred ==
    Returned("calculate_deal_percentages") =>
        /\ FAdd(call.ret.partnerShare, call.ret.companyShare) = Hundred
        /\ FGe(call.ret.partnerShare, Zero)
        /\ FLe(call.ret.partnerShare, Hundred)
        /\ FGe(call.ret.companyShare, Zero)
        /\ FLe(call.ret.companyShare, Hundred)

\* A deal worth more than the asset: the share clamped to 100, none retained.
C12_Witness ==
    /\ Returned("calculate_deal_percentages")
    /\ FGt(DealStageValue, Zero)
    /\ FGt(DealRatio, Hundred)
    /\ call.ret.partnerShare = Hundred
    /\ call.ret.companyShare = Zero

\* C13: for a desired share in [0, 100] and a deal stage that can be valued,
\* calculate_required_deal_value returns the phase value of the deal stage
\* times desired_share / 100.
C13_RequiredDealValue ==
    (/\ call.op = "calculate_required_deal_value"
     /\ FGe(call.desired_share, Zero)
     /\ FLe(call.desired_share, Hundred)
     /\ Ok(calculate_phase_value(inputs, inputs.dealStage))) =>
        /\ Ok(call.ret)
        /\ call.ret.value =
               FMul(DealStageValue, FDiv(call.desired_share, Hundred))

\* A share of 13.9% of an asset sold at phase 2, whose value differs from the
\* preclinical one.
C13_Witness ==
    /\ Returned("calculate_required_deal_value")
    /\ inputs.dealStage = "phase2"
    /\ call.desired_share = Lit(139, 10)
    /\ FGt(call.ret.value, Zero)
    /\ DealStageValue # calculate_phase_value(inputs, "preclinical").value

\* The deal value that buys the partner share a returned result reports.
RoundTripValue ==
    calculate_required_deal_value(inputs, call.ret.partnerShare).value

\* How far the round trip lands from the deal value it started from.
RoundTripError == FAbs(FSub(RoundTripValue, inputs.dealValue))

\* What one unit of the share's last decimal (0.1%) of the asset is worth.
RoundTripTolerance == FMul(FAbs(DealStageValue), Lit(1, 1000))

\* C14: for valid inputs with dealValue >= 0, the partner share returned by
\* calculate_deal_percentages, given to calculate_required_deal_value, gives
\* back dealValue to within the tolerance of rounding the share to one
\* decimal place.
C14_RoundTrip ==
    (/\ ValidInputs
     /\ FGe(inputs.dealValue, Zero)
     /\ Returned("calculate_deal_percentages")) =>
        FLe(RoundTripError, RoundTripTolerance)

\* C14, amended: the round trip gives back dealValue to within 0.1% of the
\* phase value when the phase value of the deal stage is positive and
\* dealValue does not exceed it, so that the share is computed from the deal
\* value and not clamped.
C14_RoundTripWithinAsset ==
    (/\ ValidInputs
     /\ FGe(inputs.dealValue, Zero)
     /\ Returned("calculate_deal_percentages")
     /\ FGt(DealStageValue, Zero)
     /\ FLe(inputs.dealValue, DealStageValue)) =>
        FLe(RoundTripError, RoundTripTolerance)

\* A share strictly inside the range, rounded, carried back to a value that
\* is close to dealValue without being dealValue.
C14_Witness ==
    /\ ValidInputs
    /\ Returned("calculate_deal_percentages")
    /\ FGt(inputs.dealValue, Zero)
    /\ FGt(DealStageValue, inputs.dealValue)
    /\ FLt(call.ret.partnerShare, Hundred)
    /\ RoundTripValue # inputs.dealValue

\* The order-of-entry lookups of the calculation module.
OrderLookups == {"calculate_order_multiplier", "get_order_multiplier"}

\* C15: every order-of-entry lookup returns 1.00 for first, 0.67 for second,
\* 0.50 for third and 0.30 for later, and fails with an invalid-order error
\* for any other order instead of returning a default.
C15_OrderMultiplier ==
    (call.op \in OrderLookups) =>
        CASE call.order = "first" ->
                 Ok(call.ret) /\ call.ret.multiplier = Lit(100, 100)
          [] call.order = "second" ->
                 Ok(call.ret) /\ call.ret.multiplier = Lit(67, 100)
          [] call.order = "third" ->
                 Ok(call.ret) /\ call.ret.multiplier = Lit(50, 100)
          [] call.order = "later" ->
                 Ok(call.ret) /\ call.ret.multiplier = Lit(30, 100)
          [] OTHER ->
                 call.ret.status = "ValueError"

\* The five phases in their fixed order, as the specification lists them.
PhaseOrder == <<"preclinical", "phase1", "phase2", "phase3", "registration">>

\* C16: for each of the five phases get_phases_up_to returns the prefix of the
\* phase order that ends at and includes the phase; for any other identifier
\* it fails with an invalid-phase error.
C16_PhasesUpTo ==
    (call.op = "get_phases_up_to") =>
        IF \E i \in 1..5 : PhaseOrder[i] = call.phase
        THEN /\ Ok(call.ret)
             /\ \E i \in 1..5 :
                   /\ PhaseOrder[i] = call.phase
                   /\ Len(call.ret.phases) = i
                   /\ call.ret.phases[i] = call.phase
                   /\ \A j \in 1..i : call.ret.phases[j] = PhaseOrder[j]
        ELSE call.ret.status = "ValueError"

\* The prefix of phase 2: three phases, the last of them phase 2.
C16_Witness ==
    /\ Returned("get_phases_up_to")
    /\ call.phase = "phase2"
    /\ call.ret.phases = <<"preclinical", "phase1", "phase2">>

\* C17: the next phase of a returned decision is none for registration only;
\* for preclinical, phase1, phase2 and phase3 it is the phase that follows
\* immediately in the fixed order, never the stage itself.
C17_NextPhase ==
    Returned("calculate_strategic_decision") =>
        /\ (call.ret.next_phase = "None") <=> (call.phase = "registration")
        /\ call.ret.next_phase # call.phase
        /\ \A i \in 1..4 :
              (PhaseOrder[i] = call.phase) =>
                  call.ret.next_phase = PhaseOrder[i + 1]

\* The last step: phase 3 is followed by registration.
C17_Witness ==
    /\ Returned("calculate_strategic_decision")
    /\ call.phase = "phase3"
    /\ call.ret.next_phase = "registration"

\* C18: calculate_phase_value of one of the five phases fails when
\* discountRate < 0 and when timeToMarket[phase] < 0; with discountRate in
\* [0, 100], timeToMarket[phase] >= 0, a valid order and valid probabilities
\* it returns a result, also when the value is negative.
C18_PhaseValueErrors ==
    (call.op = "calculate_phase_value" /\ call.phase \in PhaseSet) =>
        /\ (inputs.discountRate < 0) => (call.ret.status = "ValueError")
        /\ (inputs.timeToMarket[call.phase] < 0) =>
               (call.ret.status = "ValueError")
        /\ (/\ inputs.discountRate >= 0 /\ inputs.discountRate <= 100
            /\ inputs.timeToMarket[call.phase] >= 0
            /\ inputs.orderOfEntry \in {"first", "second", "third", "later"}
            /\ \A p \in PhaseSet : /\ inputs.probabilities[p] >= 0
                                   /\ inputs.probabilities[p] <= 100) =>
               Ok(call.ret)

\* The longest time to market the input form accepts, in years.
MaxTimeToMarket == 20

\* C18, amended: as C18, the result being promised for times to market of at
\* most MaxTimeToMarket years, for which the discount factor stays within
\* the range of a float.
C18_PhaseValueErrorsInRange ==
    (call.op = "calculate_phase_value" /\ call.phase \in PhaseSet) =>
        /\ (inputs.discountRate < 0) => (call.ret.status = "ValueError")
        /\ (inputs.timeToMarket[call.phase] < 0) =>
               (call.ret.status = "ValueError")
        /\ (/\ inputs.discountRate >= 0 /\ inputs.discountRate <= 100
            /\ inputs.timeToMarket[call.phase] >= 0
            /\ inputs.timeToMarket[call.phase] <= MaxTimeToMarket
            /\ inputs.orderOfEntry \in {"first", "second", "third", "later"}
            /\ \A p \in PhaseSet : /\ inputs.probabilities[p] >= 0
                                   /\ inputs.probabilities[p] <= 100) =>
               Ok(call.ret)

\* A phase whose costs exceed its risk-adjusted value: a negative result,
\* returned without error.
C18_Witness ==
    /\ Returned("calculate_phase_value")
    /\ ValidInputs
    /\ inputs.launchValue > 0
    /\ FLt(call.ret.value, Zero)

\* C19: calculate_cumulative_probability fails with an invalid-probability
\* error whenever any probability of the input's map is outside [0, 100],
\* whichever of the five phases is asked for.
C19_AnyInvalidProbability ==
    (/\ call.op = "calculate_cumulative_probability"
     /\ call.phase \in PhaseSet
     /\ \E p \in PhaseSet : \/ inputs.probabilities[p] < 0
                            \/ inputs.probabilities[p] > 100) =>
        call.ret.status = "ValueError"

\* The validation errors of the deal analysis.
InvalidDealValue == Raise("ValueError", "Deal value cannot be negative")

InvalidShare == Raise("ValueError", "Desired share must be between 0 and 100")

\* C20: in calculate_deal_percentages and in calculate_required_deal_value
\* alike, a negative dealValue or a desired share outside [0, 100] makes the
\* call fail with the matching validation error, whatever else is wrong with
\* the parameters, no phase being valued first.
C20_DealValidationFirst ==
    /\ (call.op = "calculate_deal_percentages") =>
          /\ FLt(inputs.dealValue, Zero) => (call.ret = InvalidDealValue)
          /\ (/\ FGe(inputs.dealValue, Zero)
              /\ (\/ FLt(inputs.desiredShare, Zero)
                  \/ FGt(inputs.desiredShare, Hundred))) =>
                 (call.ret = InvalidShare)
    /\ (call.op = "calculate_required_deal_value") =>
          /\ (FLt(call.desired_share, Zero) \/ FGt(call.desired_share, Hundred))
                 => (call.ret = InvalidShare)
          /\ (/\ FGe(call.desired_share, Zero)
              /\ FLe(call.desired_share, Hundred)
              /\ FLt(inputs.dealValue, Zero)) => (call.ret = InvalidDealValue)

\* The validation error of the out-license percentage.
InvalidPercentage ==
    Raise("ValueError", "Out-license percentage must be between 0 and 100")

\* C21: calculate_strategic_decision fails with the invalid-share error when
\* out_license_percentage is outside [0, 100], and with a validation error of
\* the same kind when current_stage is not one of the five phases.
C21_DecisionErrors ==
    (call.op = "calculate_strategic_decision") =>
        /\ (call.pct < 0 \/ call.pct > 100) => (call.ret = InvalidPercentage)
        /\ (call.pct >= 0 /\ call.pct <= 100 /\ call.phase \notin PhaseSet) =>
               (call.ret.status = "ValueError")

\* The five core operations.
CoreOperations ==
    {"calculate_phase_value", "calculate_cumulative_probability",
     "calculate_deal_percentages", "calculate_required_deal_value",
     "calculate_strategic_decision"}

\* C22: no core operation changes any field or per-phase map entry of the
\* parameter object it is given, whether it returns or fails with a
\* validation error, and whether the parameters are a dict or a PhaseInputs.
C22_InputsUntouched ==
    [][(call'.op \in CoreOperations) => (inputs' = inputs)]_vars

\* A deal valuation that failed on a PhaseInputs object, and one that
\* returned a share other than the desired one on a dict.
C22_Witness ==
    /\ call.op = "calculate_deal_percentages"
    /\ \/ /\ call.ret.status = "ValueError"
          /\ "orderMultipliers" \notin DOMAIN inputs
       \/ /\ Ok(call.ret)
          /\ "orderMultipliers" \in DOMAIN inputs
          /\ call.ret.partnerShare # inputs.desiredShare

\* launchValue x multiplier x cumulativeProbability / 100, nothing discounted.
UndiscountedValue(phase) ==
    FDiv(FMul(FMul(FromInt(inputs.launchValue), EntryMultiplier),
              calculate_cumulative_probability(inputs, phase).value),
         Hundred)

\* The cumulative cost a phase value is net of: the costs of preclinical
\* through the phase when R&D costs are included, nothing otherwise.
CumulativeCost(phase) ==
    IF inputs.includeRDCosts THEN FromInt(CostSum(IndexOf(phase))) ELSE Zero

\* C24: with discountRate = 0 and timeToMarket[phase] = 0 calculate_phase_value
\* returns a discount factor of 1 and the value launchValue x multiplier x
\* cumulativeProbability / 100 - cumulativeCost: discounting is a no-op.
C24_NoDiscounting ==
    (/\ Returned("calculate_phase_value")
     /\ inputs.discountRate = 0
     /\ inputs.timeToMarket[call.phase] = 0) =>
        /\ call.ret.discount_factor = One
        /\ call.ret.value =
               FSub(UndiscountedValue(call.phase), CumulativeCost(call.phase))

\* Phase 1 valued at no discount and no delay, costs taken off, the value
\* still positive.
C24_Witness ==
    /\ Returned("calculate_phase_value")
    /\ inputs.discountRate = 0
    /\ inputs.timeToMarket[call.phase] = 0
    /\ call.phase = "phase1"
    /\ inputs.includeRDCosts
    /\ inputs.orderOfEntry = "second"
    /\ FGt(call.ret.value, Zero)

TenPercent == FMul(DealStageValue, Lit(10, 100))

NinetyPercent == FMul(DealStageValue, Lit(90, 100))

\* C26: the deal assessment is "undervalued" exactly when dealValue is below
\* 10% of the phase value, "overvalued" exactly when it is above 90% of the
\* phase value and "fair" otherwise: exactly one label for every dealValue
\* >= 0 and every phase value, zero and negative ones included.
C26_FairnessClassification ==
    (call.op = "display_deal_analysis" /\ Ok(call.ret)) =>
        /\ FGe(inputs.dealValue, Zero)
        /\ call.ret.assessment \in {"Undervalued", "Overvalued", "Fair value"}
        /\ (call.ret.assessment = "Undervalued")
               <=> FLt(inputs.dealValue, TenPercent)
        /\ (call.ret.assessment = "Overvalued")
               <=> FGt(inputs.dealValue, NinetyPercent)
        /\ (call.ret.assessment = "Fair value")
               <=> (/\ FGe(inputs.dealValue, TenPercent)
                    /\ FLe(inputs.dealValue, NinetyPercent))

\* An asset worth nothing offered for nothing: on both thresholds, fair.
C26_Witness ==
    /\ call.op = "display_deal_analysis"
    /\ Ok(call.ret)
    /\ DealStageValue = Zero
    /\ inputs.dealValue = Zero
    /\ call.ret.assessment = "Fair value"

\* C27: on the deal analysis page, from the default session inputs and after
\* any reruns in which the user changes the deal stage, the deal value or
\* the partner share within the widgets' ranges, the stored dealValue is
\* never negative, and the page's calculate_deal_percentages never fails
\* with "Deal value cannot be negative".
C27_DealValueNeverNegative ==
    initialized =>
        /\ FGe(inputs.dealValue, Zero)
        /\ (call.op = "deal_analysis_page") => (call.ret # InvalidDealValue)

\* C29: initialize_session_state sets the session inputs to the defaults only
\* when the session is not yet initialized: every call after the first
\* leaves the session inputs, the user's edits included, unchanged.
C29_InitializeOnce ==
    [][(call'.op = "initialize_session_state") =>
           /\ initialized'
           /\ inputs' = IF initialized THEN inputs ELSE InputParameters]_vars

\* A later call of initialize_session_state that has left edited inputs alone.
C29_Witness ==
    /\ call.op = "initialize_session_state"
    /\ initialized
    /\ inputs.dealStage = "phase2"
    /\ inputs.dealValue = FromInt(50)
    /\ inputs # InputParameters

\* launchValue x multiplier, as the program computes it.
BaseValue == FMul(FromInt(inputs.launchValue), EntryMultiplier)

\* The bounds of a returned phase value other than the upper bound of the
\* value.
PhaseValueBounds(ret) ==
    /\ FGe(ret.discount_factor, One)
    /\ FGe(ret.probability, Zero)
    /\ FLe(ret.probability, Hundred)
    /\ FLe(FNeg(ret.costs), ret.value)
    /\ (~inputs.includeRDCosts) => FGe(ret.value, Zero)

\* C28: for every parameter set within the input ranges and every phase,
\* calculate_phase_value returns discount_factor >= 1, probability in
\* [0, 100] and -costs <= value <= launchValue x multiplier - costs; in
\* particular value >= 0 when includeRDCosts is false.
C28_PhaseValueBounds ==
    (/\ ValidInputs
     /\ call.op = "calculate_phase_value"
     /\ call.phase \in PhaseSet) =>
        /\ Ok(call.ret)
        /\ PhaseValueBounds(call.ret)
        /\ FLe(call.ret.value, FSub(BaseValue, call.ret.costs))

\* Three binary places above half a unit in the last place of a float: what
\* the roundings of lines 193-216 can add up to, relative to the operands.
RoundingSlack ==
    FMul(FAdd(BaseValue, call.ret.costs), [m |-> 1, e |-> 3 - MantissaBits])

\* C28, amended: as C28, for times to market of at most MaxTimeToMarket
\* years, the upper bound of the value holding up to rounding.
C28_PhaseValueBoundsRounded ==
    (/\ ValidInputs
     /\ call.op = "calculate_phase_value"
     /\ call.phase \in PhaseSet
     /\ inputs.timeToMarket[call.phase] <= MaxTimeToMarket) =>
        /\ Ok(call.ret)
        /\ PhaseValueBounds(call.ret)
        /\ FLe(call.ret.value,
               FAdd(FSub(BaseValue, call.ret.costs), RoundingSlack))

\* A value strictly inside its bounds: discounted, at risk, costs taken off.
C28_Witness ==
    /\ ValidInputs
    /\ Returned("calculate_phase_value")
    /\ inputs.includeRDCosts
    /\ FGt(call.ret.discount_factor, One)
    /\ FLt(call.ret.probability, Hundred)
    /\ FGt(call.ret.value, FNeg(call.ret.costs))
    /\ FLt(call.ret.value, FSub(BaseValue, call.ret.costs))

\* The arguments of a market penetration call lie within their ranges.
ValidMarketArguments ==
    /\ FLe(Zero, call.adoption_rate)
    /\ FLe(call.adoption_rate, Hundred)
    /\ call.treated_patients >= 0
    /\ call.diagnosed_patients >= 0

\* C30: for an adoption rate in [0, 100] and non-negative patient counts
\* calculate_market_penetration returns penetration and treatment_rate in
\* [0, 100], both 0 when diagnosed_patients = 0; for a negative patient
\* count or an adoption rate outside [0, 100] it fails with an error.
C30_MarketPenetrationBounds ==
    (call.op = "calculate_market_penetration") =>
        IF ValidMarketArguments
        THEN /\ Ok(call.ret)
             /\ FLe(Zero, call.ret.penetration)
             /\ FLe(call.ret.penetration, Hundred)
             /\ FLe(Zero, call.ret.treatment_rate)
             /\ FLe(call.ret.treatment_rate, Hundred)
             /\ (call.diagnosed_patients = 0) =>
                    /\ Cmp(call.ret.penetration, Zero) = 0
                    /\ Cmp(call.ret.treatment_rate, Zero) = 0
        ELSE call.ret.status = "ValueError"

====
